---- MODULE Spec2Model ----
(***************************************************************************)
(* Backup orchestration of lnd-backup-inotify-dropbox: the storage         *)
(* provider interface (storage_providers.py), the Azure provider           *)
(* (azure_provider.py) and the two Dropbox scripts (dropbox_backup.py,     *)
(* tapd_backup.py): upload with retry, the local mirror and the retention  *)
(* pass over the remote store.                                             *)
(***************************************************************************)
EXTENDS Integers, Sequences, FiniteSets, TLC

VARIABLES
    orch,           \* which orchestrator runs: "azure", "dropbox", "tapd"
    system_id,      \* the provider's system identity (a string, as a sequence)
    keep_last_n,    \* retention count
    store,          \* remote store: set of [path, mtime, data]
    now,            \* wall clock, in seconds
    pc,             \* position of the running call
    backup_files,   \* cleanup_old_backups: the filtered, sorted listing
    idx,            \* cleanup_old_backups: next index of backup_files to delete
    attempted,      \* paths a deletion was attempted for in the current pass
    delFailed,      \* paths whose deletion failed in the current pass
    listOk,         \* whether the listing of the current pass succeeded
    total,          \* value returned by the last cleanup_old_backups (-1: none yet)
    store0,         \* the store when the current pass started
    passes,         \* retention passes begun since the invocation started
    shown,          \* the count the orchestrator printed after the pass (-1: none)
    lastDel,        \* the last two direct delete_file calls, newest first
    max_retries,    \* argument of the running invocation
    file_contents,  \* the artifact's bytes as last read
    timestamp,      \* the timestamp the remote names are built from
    attempt,        \* loop variable of `for attempt in range(max_retries)`
    attempts,       \* loop iterations begun in this invocation
    failures,       \* loop iterations that ended in the except branches
    sleeps,         \* the delays slept in this invocation, in order
    result,         \* "running", "ok" (returned True) or "fail" (returned False)
    endedBy,        \* the return taken: "success", "exhausted", "quota", "setup"
    lastOutcome,    \* outcome of the last remote call of the upload loop
    uploaded,       \* an upload call was made in this invocation
    fullUpload,     \* an attempt uploaded both the timestamped and the latest record
    lastTs,         \* the last timestamped upload that succeeded, if any
    startStore,     \* the store when this invocation started
    localFiles,     \* timestamps of the timestamped files of the local mirror
    localLatest,    \* bytes of the local 'latest' file (NoData: absent)
    localCalled,    \* local_backup was called in this invocation
    localWrote,     \* local_backup wrote both local files in this invocation
    localEnd,       \* how the last local_backup ended, and the mirror it found
    providers,      \* StorageProviderFactory._providers: name -> provider class
    made,           \* the last call of the factory (or of a constructor) and its end
    config,         \* the config dict the caller of the factory holds
    handed,         \* the dict the last call handed to a constructor, if any
    lastOp,         \* the last call of an Azure provider operation and its end
    entry,          \* the entry point that runs: "backup", "dropbox", "tapd"
    env,            \* what the process finds: settings and source files
    provider_name,  \* the provider name backup.main reported ("": none)
    exit_code,      \* the value main returned (-1: not yet)
    archive,        \* tapd's temporary archive: "none", "exists" or "removed"
    inv             \* overlapping invocations: each one's position and locals

retVars == <<backup_files, idx, attempted, delFailed, listOk, total, store0, passes,
             shown>>
facVars == <<providers, made, config, handed>>
mainVars == <<entry, env, provider_name, exit_code, archive>>
cfgVars == <<orch, system_id, keep_last_n, facVars, lastOp, mainVars, inv>>
invVars == <<max_retries, file_contents, timestamp, attempt, attempts, failures,
             sleeps, result, endedBy, lastOutcome, uploaded, fullUpload, lastTs,
             startStore>>
localVars == <<localFiles, localLatest, localCalled, localWrote, localEnd>>
vars == <<cfgVars, store, now, pc, retVars, lastDel, invVars, localVars>>

----------------------------------------------------------------------------
\* Bounds of the model.
MaxKeep == 2        \* keep_last_n ranges over 0..MaxKeep
MaxOwn == 3         \* timestamped records initially in the provider's directory
MaxStamp == 2       \* initial modification times range over 1..MaxStamp
MaxRetries == 4     \* max_retries ranges over 0..MaxRetries

----------------------------------------------------------------------------
\* Strings are sequences of characters; a file name is one token.
BackupRoot == <<"b">>
Sep == "/"
SysN == <<"n">>
SysN1 == <<"n", "1">>
Systems == {SysN, SysN1}
Contents == {"x", "y"}
NoData == "none"

TsName(t) == [stem |-> "backup", ts |-> t, ext |-> "backup"]
LatestName == [stem |-> "latest", ts |-> 0, ext |-> "backup"]
ChecksumName(t) == [stem |-> "backup", ts |-> t, ext |-> "checksums"]

\* f"{self.backup_dir}/{self.system_id}"
get_system_backup_dir(sys) == BackupRoot \o <<Sep>> \o sys

\* The directory an orchestrator writes to and lists.
OwnDir == IF orch = "dropbox" THEN BackupRoot ELSE get_system_backup_dir(system_id)

Path(dir, name) == [dir |-> dir, name |-> name]
FullPath(p) == p.dir \o <<Sep, p.name>>

StartsWith(s, pre) == Len(pre) <= Len(s) /\ SubSeq(s, 1, Len(pre)) = pre

\* (timestamped_path, latest_path) of one invocation
generate_backup_paths_same(dir, stamp) ==
    [timestamped |-> Path(dir, TsName(stamp)), latest |-> Path(dir, TsName(stamp))]

generate_backup_paths(dir, stamp) ==
    [timestamped |-> Path(dir, TsName(stamp)), latest |-> Path(dir, LatestName)]

Paths(st) == {r.path : r \in st}
Exists(st, p) == p \in Paths(st)

\* upload with overwrite: the record at `p` is replaced
PutBlobKeepsExisting(st, p, data, t) ==
    IF Exists(st, p) THEN st
    ELSE st \cup {[path |-> p, mtime |-> t, data |-> data]}

PutBlob(st, p, data, t) ==
    {r \in st : r.path # p} \cup {[path |-> p, mtime |-> t, data |-> data]}

----------------------------------------------------------------------------
\* Listing.

\* AzureStorageProvider.list_backups: blobs whose name starts with the system
\* directory and ends with '.backup'.
AzureListNoSlash(st, sys) ==
    {r \in st : StartsWith(FullPath(r.path), get_system_backup_dir(sys))
                /\ r.path.name.ext = "backup"}

list_backups(st, sys) == AzureListNoSlash(st, sys)

\* dbx.files_list_folder(dir).entries: the entries of exactly that folder
files_list_folder(st, dir) == {r \in st : r.path.dir = dir}

\* The name filter of the retention pass: the backup-name infix and the suffix.
IsBackupName(name) == name.stem = "backup" /\ name.ext = "backup"

\* What one retention pass of the running orchestrator lists and keeps after
\* its filter.
MatchingUnfiltered(st) ==
    IF orch = "azure" THEN list_backups(st, system_id) ELSE files_list_folder(st, OwnDir)

Matching(st) ==
    IF orch = "azure"
    THEN {r \in list_backups(st, system_id) : IsBackupName(r.path.name)}
    ELSE {r \in files_list_folder(st, OwnDir) : IsBackupName(r.path.name)}

\* sort(key=mtime, reverse=True): every order of the records that is
\* descending in mtime (the order among equal mtimes is the listing's).
RECURSIVE SortedOldestFirst(_)
SortedOldestFirst(S) ==
    IF S = {} THEN {<<>>}
    ELSE UNION {{<<r>> \o s : s \in SortedOldestFirst(S \ {r})} :
                r \in {x \in S : \A y \in S : x.mtime <= y.mtime}}

RECURSIVE SortedNewestFirst(_)
SortedNewestFirst(S) ==
    IF S = {} THEN {<<>>}
    ELSE UNION {{<<r>> \o s : s \in SortedNewestFirst(S \ {r})} :
                r \in {x \in S : \A y \in S : x.mtime >= y.mtime}}

----------------------------------------------------------------------------
\* Deleting.

\* Transport outcomes of one call: the service answers, or the call faults.
Outcomes == {"served", "error"}

\* AzureStorageProvider.delete_file: True when the blob was deleted or was not
\* found, False on any other fault.
AzureDeleteNotFoundFails(st, p, outcome) ==
    IF outcome = "served" /\ Exists(st, p)
    THEN [store |-> {r \in st : r.path # p}, ret |-> TRUE]
    ELSE [store |-> st, ret |-> FALSE]

AzureDelete(st, p, outcome) ==
    IF outcome = "served"
    THEN [store |-> {r \in st : r.path # p}, ret |-> TRUE]
    ELSE [store |-> st, ret |-> FALSE]

delete_file(st, p, outcome) == AzureDelete(st, p, outcome)

\* dbx.files_delete_v2: raises when the path is not found or the call faults;
\* the retention pass catches it.
files_delete_v2(st, p, outcome) ==
    IF outcome = "served" /\ Exists(st, p)
    THEN [store |-> {r \in st : r.path # p}, ret |-> TRUE]
    ELSE [store |-> st, ret |-> FALSE]

DeleteVia(st, p, outcome) ==
    IF orch = "azure" THEN delete_file(st, p, outcome)
    ELSE files_delete_v2(st, p, outcome)

----------------------------------------------------------------------------
\* cleanup_old_backups, one transport call per step.

\* The loop goes on to the next record whether the deletion succeeded, returned
\* False or raised (i: the index just handled).
NextIndexAbort(i, ok) == IF ok THEN i + 1 ELSE Len(backup_files) + 1
NextIndex(i, ok) == i + 1

\* backup_files[self.keep_last_n:] starts at this (1-based) index
FirstOldOffByOne == keep_last_n + 2
FirstOld == keep_last_n + 1

\* backups = list_backups(); filter; sort
CleanupList ==
    /\ pc = "cl_list"
    /\ \E outcome \in Outcomes :
         /\ listOk' = (outcome = "served")
         /\ IF outcome = "served"
            THEN \E s \in SortedNewestFirst(Matching(store)) : backup_files' = s
            ELSE backup_files' = <<>>
    /\ idx' = FirstOld
    /\ attempted' = {}
    /\ delFailed' = {}
    /\ store0' = store
    /\ total' = -1
    /\ passes' = passes + 1
    /\ pc' = "cl_delete"
    /\ UNCHANGED <<cfgVars, store, now, shown, lastDel, invVars, localVars>>

\* for backup_path, _ in backup_files[keep_last_n:]: delete_file(backup_path)
CleanupDelete ==
    /\ pc = "cl_delete"
    /\ Len(backup_files) > keep_last_n
    /\ idx <= Len(backup_files)
    /\ \E outcome \in Outcomes :
         LET p == backup_files[idx].path
             d == DeleteVia(store, p, outcome)
         IN /\ store' = d.store
            /\ attempted' = attempted \cup {p}
            /\ delFailed' = IF d.ret THEN delFailed ELSE delFailed \cup {p}
            /\ idx' = NextIndex(idx, d.ret)
    /\ UNCHANGED <<cfgVars, now, pc, backup_files, listOk, total, store0, passes,
                   shown, lastDel, invVars, localVars>>

\* len(backup_files): the filtered listing, counted as it was listed
ReturnedCountAfter == Cardinality(Matching(store))
ReturnedCount == Len(backup_files)

\* return len(backup_files)   (0 when the listing raised)
CleanupReturn ==
    /\ pc = "cl_delete"
    /\ Len(backup_files) <= keep_last_n \/ idx > Len(backup_files)
    /\ total' = ReturnedCount
    /\ pc' = "cl_done"
    /\ UNCHANGED <<cfgVars, store, now, backup_files, idx, attempted, delFailed,
                   listOk, store0, passes, shown, lastDel, invVars, localVars>>

----------------------------------------------------------------------------
\* Connection descriptors. A descriptor is a sequence of tokens, such as
\* <<"azure", "://", "acct", ".blob.core.windows.net", "/", "c", "?", "sas">>;
\* the empty sequence is the missing (None or empty) descriptor.

SchemeSep == "://"
AzureSuffix == ".blob.core.windows.net"
Missing == <<>>

Schemes == {"azure", "other", "s3"}
Hosts == {<<>>, <<"acct", AzureSuffix>>, <<"acct", ".example.com">>}
ContainerPaths == {<<>>, <<"/">>, <<"/", "c">>}
Query == <<"?", "sas">>

Descriptors ==
    {Missing}
      \cup {<<s, SchemeSep>> \o h \o p \o Query :
              s \in Schemes, h \in Hosts, p \in ContainerPaths}
      \cup {<<"AZURE", SchemeSep, "acct", AzureSuffix, "/", "c">> \o Query,
            <<"azure", SchemeSep, "acct", AzureSuffix, "/", "/", "c", "/", "d">>,
            <<"azure", SchemeSep, AzureSuffix, "/", "c">>,
            <<"acct", AzureSuffix, "/", "c">> \o Query}

\* urlparse lower-cases the scheme
Lower(tok) == IF tok = "AZURE" THEN "azure" ELSE tok

\* The first index at or after i of a token of `toks` (Len(s) + 1: none).
RECURSIVE Find(_, _, _)
Find(s, toks, i) ==
    IF i > Len(s) \/ s[i] \in toks THEN i ELSE Find(s, toks, i + 1)

\* urllib.parse.urlparse: scheme, hostname, path and query of a descriptor; a
\* descriptor without '://' has no scheme and no host, all of it is path.
urlparse(cs) ==
    LET hasScheme == Len(cs) >= 2 /\ cs[2] = SchemeSep
        pathAt == IF hasScheme THEN Find(cs, {"/", "?"}, 3) ELSE 1
        queryAt == Find(cs, {"?"}, pathAt)
    IN [scheme |-> IF hasScheme THEN Lower(cs[1]) ELSE "",
        hostname |-> IF hasScheme THEN SubSeq(cs, 3, pathAt - 1) ELSE <<>>,
        path |-> SubSeq(cs, pathAt, queryAt - 1),
        query |-> SubSeq(cs, queryAt + 1, Len(cs))]

\* str.endswith
EndsWith(s, tok) == s # <<>> /\ s[Len(s)] = tok

\* str.strip('/')
RECURSIVE Strip(_)
Strip(s) ==
    IF s = <<>> THEN s
    ELSE IF s[1] = "/" THEN Strip(Tail(s))
    ELSE IF s[Len(s)] = "/" THEN Strip(SubSeq(s, 1, Len(s) - 1))
    ELSE s

\* parsed.path.strip('/').split('/')[0]
FirstSegment(path) ==
    LET t == Strip(path) IN SubSeq(t, 1, Find(t, {"/"}, 1) - 1)

----------------------------------------------------------------------------
\* Provider classes and their construction.

AzureClass == "AzureStorageProvider"
OtherClass == "OtherProvider"      \* a StorageProvider subclass registered by a caller
Classes == {AzureClass, OtherClass}
NoInstance == "none"

Raised(kind) == [raised |-> kind, instance |-> NoInstance, available |-> {}]
Constructed(class) == [raised |-> "none", instance |-> class, available |-> {}]

\* AzureStorageProvider._parse_connection_string: the check that raises, if any
parse_connection_string_any_scheme(cs) ==
    LET parsed == urlparse(cs)
    IN IF parsed.hostname = <<>> \/ ~EndsWith(parsed.hostname, AzureSuffix)
       THEN "hostname"
       ELSE IF FirstSegment(parsed.path) = <<>> THEN "container"
       ELSE "none"

parse_connection_string(cs) ==
    LET parsed == urlparse(cs)
    IN IF parsed.scheme # "azure" THEN "scheme"
       ELSE IF parsed.hostname = <<>> \/ ~EndsWith(parsed.hostname, AzureSuffix)
       THEN "hostname"
       ELSE IF FirstSegment(parsed.path) = <<>> THEN "container"
       ELSE "none"

\* ContainerClient.from_container_url builds the client object or raises; a
\* raise becomes the constructor's ValueError.
ClientOutcomes == {"built", "raises"}

\* AzureStorageProvider.__init__ on config['connection_string'] = cs
AzureStorageProvider(cs, client) ==
    IF cs = Missing THEN Raised("required")
    ELSE IF parse_connection_string(cs) # "none"
         THEN Raised(parse_connection_string(cs))
    ELSE IF client = "raises" THEN Raised("client")
    ELSE Constructed(AzureClass)

\* provider_class(config)
Construct(class, cs, client) ==
    IF class = AzureClass THEN AzureStorageProvider(cs, client)
    ELSE Constructed(OtherClass)

----------------------------------------------------------------------------
\* StorageProviderFactory.

ProviderNames == {"azure", "other", "s3"}

\* ', '.join(cls._providers.keys())
AvailableOne(reg) == {CHOOSE n \in DOMAIN reg : TRUE}
Available(reg) == DOMAIN reg

UnknownProvider(reg) ==
    [raised |-> "unknown", instance |-> NoInstance, available |-> Available(reg)]

\* cls._providers[name] = provider_class
register_provider(reg, name, class) ==
    [n \in DOMAIN reg \cup {name} |-> IF n = name THEN class ELSE reg[n]]

\* create_provider(provider_name, config), config['connection_string'] = cs
create_provider(reg, name, cs, client) ==
    IF name \notin DOMAIN reg THEN UnknownProvider(reg)
    ELSE Construct(reg[name], cs, client)

\* A config dict is a function from its keys to their values; of the keys
\* get_storage_config fills in, the model keeps these two.
BaseConfig == [k \in {"backup_dir"} |-> BackupRoot]

\* dict.get(key): None when the key is absent
Get(d, key) == IF key \in DOMAIN d THEN d[key] ELSE Missing

\* d[key] = value
SetItem(d, key, value) ==
    [k \in DOMAIN d \cup {key} |-> IF k = key THEN value ELSE d[k]]

\* The dict get_storage_config returns for a descriptor
get_storage_config(cs) == SetItem(BaseConfig, "connection_string", cs)

\* The configs a caller may hold: without a descriptor, or with any one.
CallerConfigs == {BaseConfig} \cup {get_storage_config(cs) : cs \in Descriptors}

\* No dict was handed to a constructor.
NotHanded == [object |-> "none", content |-> BaseConfig]

\* The descriptor written into the caller's own dict.
MergedInPlace(cfg, cs) ==
    [caller |-> SetItem(cfg, "connection_string", cs),
     object |-> "caller",
     content |-> SetItem(cfg, "connection_string", cs)]

\* config = config.copy(); config['connection_string'] = connection_string:
\* the caller's dict afterwards, and the dict the local name refers to
Merged(cfg, cs) ==
    [caller |-> cfg,
     object |-> "copy",
     content |-> SetItem(cfg, "connection_string", cs)]

\* create_provider_from_connection_string(connection_string, config)
create_provider_from_connection_string(reg, cs, cfg, client) ==
    IF cs = Missing THEN Raised("required")
    ELSE LET scheme == urlparse(cs).scheme
         IN IF scheme \notin DOMAIN reg THEN UnknownProvider(reg)
            ELSE Construct(reg[scheme],
                           Get(Merged(cfg, cs).content, "connection_string"), client)

\* The registry once azure_provider is imported.
ImportedProviders == [n \in {"azure"} |-> AzureClass]

NoCall == [op |-> "none", name |-> "", cs |-> Missing, client |-> "built",
           raised |-> "none", instance |-> NoInstance, available |-> {}]

Call(op, name, cs, client, res) ==
    [op |-> op, name |-> name, cs |-> cs, client |-> client,
     raised |-> res.raised, instance |-> res.instance, available |-> res.available]

\* Providers register while their modules are imported, before the first call.
RegisterProvider ==
    /\ pc = "factory"
    /\ made.op = "none"
    /\ \E name \in {"azure", "other"}, class \in Classes :
         providers' = register_provider(providers, name, class)
    /\ UNCHANGED <<orch, system_id, keep_last_n, inv, made, config, handed, lastOp,
                   mainVars, store, now, pc, retVars, lastDel, invVars, localVars>>

CreateProvider ==
    /\ pc = "factory"
    /\ \E name \in ProviderNames, client \in ClientOutcomes :
         LET cs == Get(config, "connection_string")
         IN /\ made' = Call("create_provider", name, cs, client,
                            create_provider(providers, name, cs, client))
            /\ handed' = IF name \in DOMAIN providers
                         THEN [object |-> "caller", content |-> config]
                         ELSE NotHanded
    /\ UNCHANGED <<orch, system_id, keep_last_n, inv, providers, config, lastOp,
                   mainVars, store, now, pc, retVars, lastDel, invVars, localVars>>

CreateProviderFromConnectionString ==
    /\ pc = "factory"
    /\ \E cs \in Descriptors, client \in ClientOutcomes :
         /\ made' = Call("create_provider_from_connection_string", "", cs, client,
                         create_provider_from_connection_string(providers, cs, config,
                                                                client))
         /\ IF cs # Missing /\ urlparse(cs).scheme \in DOMAIN providers
            THEN /\ config' = Merged(config, cs).caller
                 /\ handed' = [object |-> Merged(config, cs).object,
                               content |-> Merged(config, cs).content]
            ELSE /\ handed' = NotHanded
                 /\ UNCHANGED config
    /\ UNCHANGED <<orch, system_id, keep_last_n, inv, providers, lastOp, mainVars, store,
                   now, pc, retVars, lastDel, invVars, localVars>>

\* AzureStorageProvider(config) called directly
ConstructAzure ==
    /\ pc = "factory"
    /\ \E client \in ClientOutcomes :
         LET cs == Get(config, "connection_string")
         IN made' = Call("AzureStorageProvider", "", cs, client,
                         AzureStorageProvider(cs, client))
    /\ handed' = [object |-> "caller", content |-> config]
    /\ UNCHANGED <<orch, system_id, keep_last_n, inv, providers, config, lastOp,
                   mainVars, store, now, pc, retVars, lastDel, invVars, localVars>>

NextFactory ==
    \/ RegisterProvider
    \/ CreateProvider
    \/ CreateProviderFromConnectionString
    \/ ConstructAzure

----------------------------------------------------------------------------
\* The Azure provider's operations under every end of the transport call.

\* What the transport call raises: nothing, or an exception of this class.
ResourceNotFoundError == "ResourceNotFoundError"
AzureError == "AzureError"
AnyException == "Exception"
Exceptions == {"none", ResourceNotFoundError, AzureError, AnyException}

\* The classes an `except` clause for one of them catches.
Bases(exc) ==
    CASE exc = ResourceNotFoundError -> {ResourceNotFoundError, AzureError, AnyException}
      [] exc = AzureError -> {AzureError, AnyException}
      [] exc = AnyException -> {AnyException}
      [] OTHER -> {}

\* try/except: the first clause that catches `exc` gives the return value; an
\* exception no clause catches leaves the operation.
Handle(handlers, exc, normal) ==
    LET hit == {i \in 1..Len(handlers) : handlers[i].class \in Bases(exc)}
    IN IF exc = "none" THEN [raised |-> FALSE, ret |-> normal]
       ELSE IF hit = {} THEN [raised |-> TRUE, ret |-> "none"]
       ELSE [raised |-> FALSE,
             ret |-> handlers[CHOOSE i \in hit : \A j \in hit : i <= j].ret]

UploadHandlersAzureOnly == <<[class |-> AzureError, ret |-> "False"]>>
UploadHandlers ==
    <<[class |-> AzureError, ret |-> "False"], [class |-> AnyException, ret |-> "False"]>>

ListHandlers ==
    <<[class |-> AzureError, ret |-> "[]"], [class |-> AnyException, ret |-> "[]"]>>

DeleteHandlers ==
    <<[class |-> ResourceNotFoundError, ret |-> "True"],
      [class |-> AzureError, ret |-> "False"],
      [class |-> AnyException, ret |-> "False"]>>

\* delete_blob on a blob that does not exist raises ResourceNotFoundError
DeleteExc(st, p, exc) ==
    IF exc = "none" /\ ~Exists(st, p) THEN ResourceNotFoundError ELSE exc

NoOp == [op |-> "none", exc |-> "none", raised |-> FALSE, ret |-> "none"]

OpTargets ==
    {Path(OwnDir, TsName(t)) : t \in 1..MaxOwn} \cup {Path(OwnDir, LatestName)}

\* AzureStorageProvider.upload_file
OpUploadFile ==
    /\ pc = "ops"
    /\ \E p \in OpTargets, data \in Contents, exc \in Exceptions :
         LET h == Handle(UploadHandlers, exc, "True")
         IN /\ store' = IF exc = "none" THEN PutBlob(store, p, data, now) ELSE store
            /\ lastOp' = [op |-> "upload_file", exc |-> exc, raised |-> h.raised,
                          ret |-> h.ret]
    /\ UNCHANGED <<orch, system_id, keep_last_n, inv, facVars, mainVars, now, pc, retVars,
                   lastDel, invVars, localVars>>

\* AzureStorageProvider.list_backups
OpListBackups ==
    /\ pc = "ops"
    /\ \E exc \in Exceptions :
         LET h == Handle(ListHandlers, exc, "list")
         IN lastOp' = [op |-> "list_backups", exc |-> exc, raised |-> h.raised,
                       ret |-> IF exc = "none" /\ list_backups(store, system_id) = {}
                               THEN "[]" ELSE h.ret]
    /\ UNCHANGED <<orch, system_id, keep_last_n, inv, facVars, mainVars, store, now, pc,
                   retVars, lastDel, invVars, localVars>>

\* AzureStorageProvider.delete_file
OpDeleteFile ==
    /\ pc = "ops"
    /\ \E p \in OpTargets, fault \in Exceptions :
         LET exc == DeleteExc(store, p, fault)
             h == Handle(DeleteHandlers, exc, "True")
             d == delete_file(store, p,
                              IF exc \in {"none", ResourceNotFoundError}
                              THEN "served" ELSE "error")
         IN /\ store' = d.store
            /\ lastOp' = [op |-> "delete_file", exc |-> exc, raised |-> h.raised,
                          ret |-> h.ret]
    /\ UNCHANGED <<orch, system_id, keep_last_n, inv, facVars, mainVars, now, pc, retVars,
                   lastDel, invVars, localVars>>

\* AzureStorageProvider.create_directory: no transport call, `return True`
OpCreateDirectory ==
    /\ pc = "ops"
    /\ lastOp' = [op |-> "create_directory", exc |-> "none", raised |-> FALSE,
                  ret |-> "True"]
    /\ UNCHANGED <<orch, system_id, keep_last_n, inv, facVars, mainVars, store, now, pc,
                   retVars, lastDel, invVars, localVars>>

NextOps == OpUploadFile \/ OpListBackups \/ OpDeleteFile \/ OpCreateDirectory

----------------------------------------------------------------------------
\* Initial remote stores.

Stamp == 1..MaxStamp
OwnStamps == 1..MaxOwn

Blob(dir, name, t, data) == [path |-> Path(dir, name), mtime |-> t, data |-> data]

\* Timestamped records of directory `dir`: each of the names in `names`
\* absent, or present with some modification time.
TimestampedSets(dir, names) ==
    {{Blob(dir, TsName(t), f[t], "x") : t \in {u \in names : f[u] # 0}} :
        f \in [names -> {0} \cup Stamp]}

\* Records the retention filter must skip.
SideRecords(dir) ==
    {Blob(dir, LatestName, MaxStamp, "x"), Blob(dir, ChecksumName(1), 1, "x")}

OtherSystem(sys) == CHOOSE s \in Systems : s # sys

\* Overlapping invocations of one system's backup: two processes started by
\* two triggers.
Procs == {1, 2}

NoDelete == [existed |-> FALSE, outcome |-> "none", ret |-> TRUE]

\* The position and the locals of an invocation that has not started.
IdleInvocation ==
    [pc |-> "idle", timestamp |-> 0, max_retries |-> 0, attempt |-> 0,
     backup_files |-> <<>>, idx |-> 1, listOk |-> FALSE,
     put |-> {}, del |-> NoDelete, faulted |-> FALSE, result |-> "running"]

\* local_backup has not been called.
NoLocalCall == [ret |-> "none", fault |-> "none", files0 |-> {}, latest0 |-> NoData]

\* No invocation has run: the per-invocation state of a fresh process.
NoInvocation ==
    /\ max_retries = 0
    /\ file_contents = NoData
    /\ timestamp = 0
    /\ attempt = 0
    /\ attempts = 0
    /\ failures = 0
    /\ sleeps = <<>>
    /\ result = "running"
    /\ endedBy = "none"
    /\ lastOutcome = "none"
    /\ uploaded = FALSE
    /\ fullUpload = FALSE
    /\ lastTs = <<>>
    /\ startStore = store
    /\ localCalled = FALSE
    /\ localWrote = FALSE
    /\ localEnd = NoLocalCall
    /\ inv = [i \in Procs |-> IdleInvocation]

NoPass ==
    /\ backup_files = <<>>
    /\ idx = 1
    /\ attempted = {}
    /\ delFailed = {}
    /\ listOk = FALSE
    /\ total = -1
    /\ store0 = store
    /\ passes = 0
    /\ shown = -1
    /\ lastDel = <<>>

\* What the process finds when an entry point starts.
NoEnv == [connection_string |-> Missing, storage_provider |-> "",
          source |-> "present", client |-> "built"]

\* No entry point runs: a function is called directly.
NoEntry ==
    /\ entry = "none"
    /\ env = NoEnv
    /\ provider_name = ""
    /\ exit_code = -1
    /\ archive = "none"

NoFactoryCall ==
    /\ providers = ImportedProviders
    /\ made = NoCall
    /\ config = BaseConfig
    /\ handed = NotHanded
    /\ lastOp = NoOp

InitConfig ==
    /\ orch \in {"azure", "dropbox", "tapd"}
    /\ system_id \in Systems
    /\ keep_last_n \in 0..MaxKeep
    /\ NoFactoryCall
    /\ NoEntry

InitRetention ==
    /\ InitConfig
    /\ \E own \in TimestampedSets(OwnDir, OwnStamps),
          other \in TimestampedSets(get_system_backup_dir(OtherSystem(system_id)), {1}),
          side \in {{}, SideRecords(OwnDir)} :
         store = own \cup other \cup side
    /\ now = MaxStamp + 1
    /\ pc = "cl_list"
    /\ NoPass
    /\ NoInvocation
    /\ localFiles = {}
    /\ localLatest = NoData

NextRetention == CleanupList \/ CleanupDelete \/ CleanupReturn

SpecRetention == InitRetention /\ [][NextRetention]_vars

\* Calls of the factory and of the constructor, in a process that imported
\* azure_provider.
InitFactory ==
    /\ orch = "azure"
    /\ system_id = SysN
    /\ keep_last_n = 1
    /\ providers = ImportedProviders
    /\ made = NoCall
    /\ config \in CallerConfigs
    /\ handed = NotHanded
    /\ lastOp = NoOp
    /\ NoEntry
    /\ store = SideRecords(OwnDir)
    /\ now = MaxStamp + 1
    /\ pc = "factory"
    /\ NoPass
    /\ NoInvocation
    /\ localFiles = {}
    /\ localLatest = NoData

SpecFactory == InitFactory /\ [][NextFactory]_vars

\* Calls of the Azure provider's four operations.
InitOps ==
    /\ orch = "azure"
    /\ system_id = SysN
    /\ keep_last_n = 1
    /\ NoFactoryCall
    /\ NoEntry
    /\ \E S \in SUBSET (1..MaxOwn) :
         store = {Blob(OwnDir, TsName(t), t, "x") : t \in S}
    /\ now = MaxOwn + 1
    /\ pc = "ops"
    /\ NoPass
    /\ NoInvocation
    /\ localFiles = {}
    /\ localLatest = NoData

SpecOps == InitOps /\ [][NextOps]_vars

----------------------------------------------------------------------------
\* The local mirror.

\* The names in the local mirror directory: the timestamped files and, when
\* it exists, the 'latest' file.
LocalDir(files, latest) ==
    {TsName(t) : t \in files} \cup (IF latest = NoData THEN {} ELSE {LatestName})

\* Path.glob("channel-backup-*.backup") / glob("tapd-backup-*.tar.gz")
globAnyBackup(dir) == {n \in dir : n.ext = "backup"}
glob(dir) == {n \in dir : n.stem = "backup" /\ n.ext = "backup"}

\* File names compare as strings: two timestamped names by their fixed-width
\* timestamps, and '...-backup-...' before '...-latest...'.
NameBefore(a, b) == IF a.stem = b.stem THEN a.ts < b.ts ELSE a.stem = "backup"

\* sorted(names): ascending
RECURSIVE sorted(_)
sorted(S) ==
    IF S = {} THEN <<>>
    ELSE LET m == CHOOSE x \in S : \A y \in S \ {x} : NameBefore(x, y)
         IN <<m>> \o sorted(S \ {m})

\* backups[:-keep_last_n] under `len(backups) > keep_last_n`; the slice
\* [:-0] is empty.
LocalOld(dir, n) ==
    LET backups == sorted(glob(dir))
    IN IF Len(backups) > n /\ n # 0
       THEN SubSeq(backups, 1, Len(backups) - n)
       ELSE <<>>

LocalOutcomes == {"ok", "write_fail", "latest_fail"}

\* What local_backup returns. The provider's method returns False when a write
\* raised and True otherwise: _cleanup_local_backups catches a fault of its
\* own. tapd's local_backup prunes inside its one try block, so a fault of the
\* prune returns False as well.
LocalReturn(outcome, pruneFault) ==
    IF outcome # "ok" THEN "False"
    ELSE IF pruneFault /\ orch = "tapd" THEN "False"
    ELSE "True"

\* What follows local_backup: the retry loop, or in perform_backup's branch
\* for a provider without a retry helper, create_directory. The value
\* local_backup returned is not looked at.
AfterLocalAbort == IF localEnd'.ret = "False" THEN "done" ELSE "loop"
AfterLocal == IF orch = "generic" THEN "fb_mkdir" ELSE "loop"

\* local_backup: write the timestamped file, write 'latest', prune. A fault of
\* an unlink ends the prune where it happens (unlinked: the files removed
\* before it).
LocalBackup ==
    /\ pc = "local"
    /\ localCalled' = TRUE
    /\ \E outcome \in LocalOutcomes :
         /\ localWrote' = (outcome = "ok")
         /\ CASE outcome = "ok" ->
                   LET old == LocalOld(LocalDir(localFiles \cup {timestamp},
                                                file_contents), keep_last_n)
                   IN \E unlinked \in 0..Len(old) :
                        LET removed == {old[i] : i \in 1..unlinked}
                        IN /\ localFiles' = (localFiles \cup {timestamp})
                                               \ {n.ts : n \in glob(removed)}
                           /\ localLatest' = IF LatestName \in removed
                                             THEN NoData ELSE file_contents
                           /\ localEnd' =
                                [ret |-> LocalReturn(outcome, unlinked < Len(old)),
                                 fault |-> IF unlinked < Len(old)
                                           THEN "prune" ELSE "none",
                                 files0 |-> localFiles, latest0 |-> localLatest]
              [] outcome = "latest_fail" ->
                   /\ localFiles' = localFiles \cup {timestamp}
                   /\ localLatest' = localLatest
                   /\ localEnd' = [ret |-> LocalReturn(outcome, FALSE),
                                   fault |-> "latest",
                                   files0 |-> localFiles, latest0 |-> localLatest]
              [] OTHER ->
                   /\ localFiles' = localFiles
                   /\ localLatest' = localLatest
                   /\ localEnd' = [ret |-> LocalReturn(outcome, FALSE),
                                   fault |-> "write",
                                   files0 |-> localFiles, latest0 |-> localLatest]
    /\ pc' = AfterLocal
    /\ UNCHANGED <<cfgVars, store, now, retVars, lastDel, invVars>>

\* local_backup(file_contents, timestamp) called directly, with any artifact
\* and any timestamp
CallLocalBackup ==
    /\ pc = "local_call"
    /\ \E c \in Contents, t \in 1..(MaxOwn + 1) :
         /\ file_contents' = c
         /\ timestamp' = t
    /\ pc' = "local"
    /\ UNCHANGED <<cfgVars, store, now, retVars, lastDel, localVars, max_retries,
                   attempt, attempts, failures, sleeps, result, endedBy,
                   lastOutcome, uploaded, fullUpload, lastTs, startStore>>

InitLocal ==
    /\ InitConfig
    /\ orch \in {"azure", "tapd"}
    /\ system_id = SysN
    /\ store = {}
    /\ localFiles \in SUBSET (1..(MaxOwn + 1))
    /\ localLatest \in {NoData, "x"}
    /\ now = MaxOwn + 1
    /\ pc = "local_call"
    /\ NoPass
    /\ NoInvocation

NextLocal == CallLocalBackup \/ LocalBackup

SpecLocal == InitLocal /\ [][NextLocal]_vars

----------------------------------------------------------------------------
\* One invocation of an orchestrator: AzureStorageProvider.
\* upload_backup_with_retry, dropbox_backup.upload_to_dropbox, or
\* tapd_backup.main with upload_to_dropbox.

UploadOutcomes == {"ok", "transient", "quota"}

\* upload_file / files_upload with overwrite
upload_file(st, p, data, t, outcome) ==
    IF outcome = "ok" THEN PutBlob(st, p, data, t) ELSE st

\* `if attempt < max_retries - 1`
ShouldRetryAlways == attempt < max_retries
ShouldRetry == attempt < max_retries - 1

\* wait_time = 2 ** attempt
wait_time_linear == attempt + 1
wait_time == 2 ^ attempt

\* The Dropbox scripts return at once on insufficient space; the Azure helper
\* sees only upload_file's False and raises a plain Exception.
NonRetryable(outcome) == orch # "azure" /\ outcome = "quota"

InvocationPaths == generate_backup_paths(OwnDir, timestamp)

\* The first remote call of an attempt: the Azure helper starts with the
\* timestamped upload, the Dropbox scripts with the folder checks.
FirstStepLatest == "up_latest"
FirstStep == IF orch = "azure" THEN "up_ts" ELSE "folders"

\* What follows a timestamped upload that succeeded: the upload of 'latest'
\* (in tapd_backup, of the checksums file first).
AfterTimestampedPrune == "cl_list"
AfterTimestamped == IF orch = "tapd" THEN "up_sums" ELSE "up_latest"

\* max_retries=3, the default every entry point runs with
DefaultRetries == 3

\* The values of the max_retries argument: any when the function is called
\* directly, the default when an entry point calls it.
RetryArgs == IF entry = "none" THEN 0..MaxRetries ELSE {DefaultRetries}

Start ==
    /\ pc = "idle"
    /\ \E r \in RetryArgs, c \in Contents, d \in {0, 1} :
         /\ max_retries' = r
         /\ file_contents' = c
         /\ now' = now + d
    /\ timestamp' = IF orch = "dropbox" THEN 0 ELSE now'
    /\ attempt' = 0
    /\ attempts' = 0
    /\ failures' = 0
    /\ sleeps' = <<>>
    /\ result' = "running"
    /\ endedBy' = "none"
    /\ lastOutcome' = "none"
    /\ uploaded' = FALSE
    /\ fullUpload' = FALSE
    /\ lastTs' = <<>>
    /\ startStore' = store
    /\ backup_files' = <<>>
    /\ idx' = 1
    /\ attempted' = {}
    /\ delFailed' = {}
    /\ listOk' = FALSE
    /\ total' = -1
    /\ store0' = store
    /\ passes' = 0
    /\ shown' = -1
    /\ localCalled' = FALSE
    /\ localWrote' = FALSE
    /\ localEnd' = NoLocalCall
    /\ pc' = IF orch \in {"azure", "generic"} THEN "local" ELSE "setup"
    /\ UNCHANGED <<cfgVars, store, lastDel, localFiles, localLatest>>

\* setup_dropbox_client: None ends the invocation with False
SetupClient ==
    /\ pc = "setup"
    /\ \E ok \in BOOLEAN :
         IF ok
         THEN /\ pc' = IF orch = "tapd" THEN "local" ELSE "loop"
              /\ UNCHANGED <<result, endedBy>>
         ELSE /\ pc' = "done"
              /\ result' = "fail"
              /\ endedBy' = "setup"
    /\ UNCHANGED <<cfgVars, store, now, retVars, lastDel, localVars, max_retries,
                   file_contents, timestamp, attempt, attempts, failures, sleeps,
                   lastOutcome, uploaded, fullUpload, lastTs, startStore>>

\* range(max_retries) has a value for this iteration
HasNextAttemptInclusive == attempt <= max_retries
HasNextAttempt == attempt < max_retries

\* for attempt in range(max_retries): the next iteration begins. The Dropbox
\* script reads the file and takes the timestamp inside the loop.
BeginAttempt ==
    /\ pc = "loop"
    /\ HasNextAttempt
    /\ attempts' = attempts + 1
    /\ lastOutcome' = "none"
    /\ IF orch = "dropbox"
       THEN /\ timestamp' = now
            /\ \E c \in Contents : file_contents' = c
       ELSE UNCHANGED <<timestamp, file_contents>>
    /\ pc' = FirstStep
    /\ UNCHANGED <<cfgVars, store, now, retVars, lastDel, localVars, max_retries,
                   attempt, failures, sleeps, result, endedBy, uploaded, fullUpload,
                   lastTs, startStore>>

\* the loop ends without a return: `return False` after it
LoopExhausted ==
    /\ pc = "loop"
    /\ ~HasNextAttempt
    /\ result' = "fail"
    /\ endedBy' = "exhausted"
    /\ pc' = "done"
    /\ UNCHANGED <<cfgVars, store, now, retVars, lastDel, localVars, max_retries,
                   file_contents, timestamp, attempt, attempts, failures, sleeps,
                   lastOutcome, uploaded, fullUpload, lastTs, startStore>>

\* The except branches: return False at once, or back off, or give up.
Failed(outcome) ==
    /\ lastOutcome' = outcome
    /\ failures' = failures + 1
    /\ IF NonRetryable(outcome)
       THEN /\ result' = "fail"
            /\ endedBy' = "quota"
            /\ pc' = "done"
       ELSE IF ShouldRetry
            THEN /\ pc' = "backoff"
                 /\ UNCHANGED <<result, endedBy>>
            ELSE /\ result' = "fail"
                 /\ endedBy' = "exhausted"
                 /\ pc' = "done"

Succeeded(next) ==
    /\ lastOutcome' = "ok"
    /\ pc' = next
    /\ UNCHANGED <<failures, result, endedBy>>

\* files_get_metadata / files_create_folder_v2 of the Dropbox scripts
EnsureFolders ==
    /\ pc = "folders"
    /\ \E outcome \in UploadOutcomes :
         IF outcome = "ok" THEN Succeeded("up_ts") ELSE Failed(outcome)
    /\ UNCHANGED <<cfgVars, store, now, retVars, lastDel, localVars, max_retries,
                   file_contents, timestamp, attempt, attempts, sleeps, uploaded,
                   fullUpload, lastTs, startStore>>

\* upload of the timestamped record
UploadTimestamped ==
    /\ pc = "up_ts"
    /\ uploaded' = TRUE
    /\ \E outcome \in UploadOutcomes :
         /\ store' = upload_file(store, InvocationPaths.timestamped, file_contents,
                                 now, outcome)
         /\ IF outcome = "ok"
            THEN /\ Succeeded(AfterTimestamped)
                 /\ lastTs' = <<[path |-> InvocationPaths.timestamped,
                                 mtime |-> now, data |-> file_contents]>>
            ELSE /\ Failed(outcome)
                 /\ lastTs' = lastTs
    /\ UNCHANGED <<cfgVars, now, retVars, lastDel, localVars, max_retries,
                   file_contents, timestamp, attempt, attempts, sleeps, fullUpload,
                   startStore>>

\* tapd: upload of the checksums side-file
UploadChecksums ==
    /\ pc = "up_sums"
    /\ uploaded' = TRUE
    /\ \E outcome \in UploadOutcomes :
         /\ store' = upload_file(store, Path(OwnDir, ChecksumName(timestamp)),
                                 file_contents, now, outcome)
         /\ IF outcome = "ok" THEN Succeeded("up_latest") ELSE Failed(outcome)
    /\ UNCHANGED <<cfgVars, now, retVars, lastDel, localVars, max_retries,
                   file_contents, timestamp, attempt, attempts, sleeps, fullUpload,
                   lastTs, startStore>>

\* upload of the 'latest' record; after it the retention pass runs
UploadLatest ==
    /\ pc = "up_latest"
    /\ uploaded' = TRUE
    /\ \E outcome \in UploadOutcomes :
         /\ store' = upload_file(store, InvocationPaths.latest, file_contents,
                                 now, outcome)
         /\ fullUpload' = (outcome = "ok")
         /\ IF outcome = "ok" THEN Succeeded("cl_list") ELSE Failed(outcome)
    /\ UNCHANGED <<cfgVars, now, retVars, lastDel, localVars, max_retries,
                   file_contents, timestamp, attempt, attempts, sleeps, lastTs,
                   startStore>>

\* time.sleep(wait_time), then the next iteration
Sleep ==
    /\ pc = "backoff"
    /\ sleeps' = Append(sleeps, wait_time)
    /\ now' = now + wait_time
    /\ attempt' = attempt + 1
    /\ pc' = "loop"
    /\ UNCHANGED <<cfgVars, store, retVars, lastDel, localVars, max_retries,
                   file_contents, timestamp, attempts, failures, result, endedBy,
                   lastOutcome, uploaded, fullUpload, lastTs, startStore>>

\* min(total_backups, keep_last_n)
Min(a, b) == IF a <= b THEN a ELSE b

\* print(f"Total backups maintained: {min(...)}") and `return True` after the
\* retention pass
ReportSuccess ==
    /\ pc = "cl_done"
    /\ shown' = Min(total, keep_last_n)
    /\ result' = "ok"
    /\ endedBy' = "success"
    /\ pc' = "done"
    /\ UNCHANGED <<cfgVars, store, now, backup_files, idx, attempted, delFailed,
                   listOk, total, store0, passes, lastDel, localVars, max_retries,
                   file_contents, timestamp, attempt, attempts, failures, sleeps,
                   lastOutcome, uploaded, fullUpload, lastTs, startStore>>

----------------------------------------------------------------------------
\* The entry points: backup.main with perform_backup, dropbox_backup.main and
\* tapd_backup.main.

Exit(code) ==
    /\ exit_code' = code
    /\ pc' = "exited"

\* backup.main up to the call of perform_backup
MainBackup ==
    /\ pc = "main"
    /\ entry = "backup"
    /\ IF env.connection_string = Missing
       THEN Exit(1) /\ UNCHANGED provider_name
       ELSE /\ provider_name' = IF env.storage_provider # ""
                                THEN env.storage_provider
                                ELSE urlparse(env.connection_string).scheme
            /\ IF env.source = "absent"
               THEN Exit(0)
               ELSE pc' = "perform" /\ UNCHANGED exit_code
    /\ UNCHANGED <<orch, system_id, keep_last_n, inv, facVars, lastOp, entry, env, store,
                   now, retVars, lastDel, invVars, localVars, archive>>

\* hasattr(provider, 'upload_backup_with_retry')
HasRetryHelper(class) == class = AzureClass

\* `if provider_type:` on the stripped STORAGE_PROVIDER setting
UsesOverrideNever(provider_type) == FALSE
UsesOverride(provider_type) == provider_type # ""

\* perform_backup up to the upload: the provider is created; an exception
\* ends it with False.
PerformBackup ==
    /\ pc = "perform"
    /\ LET cs == env.connection_string
           cfg == get_storage_config(cs)
           res == IF UsesOverride(env.storage_provider)
                  THEN create_provider(providers, env.storage_provider, cs, env.client)
                  ELSE create_provider_from_connection_string(providers, cs, cfg,
                                                              env.client)
           reached == IF UsesOverride(env.storage_provider)
                      THEN env.storage_provider \in DOMAIN providers
                      ELSE urlparse(cs).scheme \in DOMAIN providers
       IN /\ config' = cfg
          /\ handed' = IF ~reached THEN NotHanded
                       ELSE IF UsesOverride(env.storage_provider)
                       THEN [object |-> "caller", content |-> cfg]
                       ELSE [object |-> Merged(cfg, cs).object,
                             content |-> Merged(cfg, cs).content]
          /\ made' = Call(IF UsesOverride(env.storage_provider)
                          THEN "create_provider"
                          ELSE "create_provider_from_connection_string",
                          env.storage_provider, cs, env.client, res)
          /\ IF res.instance = NoInstance
             THEN /\ result' = "fail"
                  /\ endedBy' = "config"
                  /\ pc' = "done"
                  /\ orch' = orch
             ELSE /\ orch' = IF HasRetryHelper(res.instance) THEN "azure" ELSE "generic"
                  /\ pc' = "idle"
                  /\ UNCHANGED <<result, endedBy>>
    /\ UNCHANGED <<system_id, keep_last_n, inv, providers, lastOp, mainVars, store, now,
                   retVars, lastDel, localVars, max_retries, file_contents, timestamp,
                   attempt, attempts, failures, sleeps, lastOutcome, uploaded,
                   fullUpload, lastTs, startStore>>

\* `return False` of perform_backup's branch without a retry helper
FallbackFailed(outcome) ==
    /\ lastOutcome' = outcome
    /\ failures' = failures + 1
    /\ result' = "fail"
    /\ endedBy' = "upload"
    /\ pc' = "done"

\* provider.create_directory(...): the value is not looked at, an exception
\* ends perform_backup
FallbackCreateDirectory ==
    /\ pc = "fb_mkdir"
    /\ attempts' = 1
    /\ \E outcome \in {"ok", "transient"} :
         IF outcome = "ok" THEN Succeeded("fb_ts") ELSE FallbackFailed(outcome)
    /\ UNCHANGED <<cfgVars, store, now, retVars, lastDel, localVars, max_retries,
                   file_contents, timestamp, attempt, sleeps, uploaded, fullUpload,
                   lastTs, startStore>>

\* if not provider.upload_file(file_contents, timestamped_path): return False
FallbackTimestamped ==
    /\ pc = "fb_ts"
    /\ uploaded' = TRUE
    /\ \E outcome \in UploadOutcomes :
         /\ store' = upload_file(store, InvocationPaths.timestamped, file_contents,
                                 now, outcome)
         /\ IF outcome = "ok"
            THEN /\ Succeeded("fb_latest")
                 /\ lastTs' = <<[path |-> InvocationPaths.timestamped,
                                 mtime |-> now, data |-> file_contents]>>
            ELSE /\ FallbackFailed(outcome)
                 /\ lastTs' = lastTs
    /\ UNCHANGED <<cfgVars, now, retVars, lastDel, localVars, max_retries,
                   file_contents, timestamp, attempt, attempts, sleeps, fullUpload,
                   startStore>>

\* if not provider.upload_file(file_contents, latest_path): return False
FallbackLatest ==
    /\ pc = "fb_latest"
    /\ uploaded' = TRUE
    /\ \E outcome \in UploadOutcomes :
         /\ store' = upload_file(store, InvocationPaths.latest, file_contents,
                                 now, outcome)
         /\ fullUpload' = (outcome = "ok")
         /\ IF outcome = "ok" THEN Succeeded("cl_list") ELSE FallbackFailed(outcome)
    /\ UNCHANGED <<cfgVars, now, retVars, lastDel, localVars, max_retries,
                   file_contents, timestamp, attempt, attempts, sleeps, lastTs,
                   startStore>>

\* dropbox_backup.main up to the call of upload_to_dropbox
MainDropbox ==
    /\ pc = "main"
    /\ entry = "dropbox"
    /\ IF env.source = "absent"
       THEN Exit(0)
       ELSE pc' = "idle" /\ UNCHANGED exit_code
    /\ UNCHANGED <<orch, system_id, keep_last_n, inv, facVars, lastOp, entry, env,
                   provider_name, store, now, retVars, lastDel, invVars, localVars,
                   archive>>

\* tapd_backup.main up to the call of upload_to_dropbox: the data directory
\* is absent, or create_backup_archive finds no database file, or the archive
\* is made
MainTapd ==
    /\ pc = "main"
    /\ entry = "tapd"
    /\ CASE env.source = "absent" -> Exit(0) /\ UNCHANGED archive
         [] env.source = "no_files" -> Exit(1) /\ UNCHANGED archive
         [] OTHER -> pc' = "idle" /\ archive' = "exists" /\ UNCHANGED exit_code
    /\ UNCHANGED <<orch, system_id, keep_last_n, inv, facVars, lastOp, entry, env,
                   provider_name, store, now, retVars, lastDel, invVars, localVars>>

\* upload_to_dropbox of the tapd script reads the archive before the loop and
\* outside any try: a failed read leaves the function by an exception
ReadArchiveRaises ==
    /\ pc = "local"
    /\ entry = "tapd"
    /\ ~localCalled
    /\ result' = "raised"
    /\ pc' = "done"
    /\ UNCHANGED <<cfgVars, store, now, retVars, lastDel, localVars, max_retries,
                   file_contents, timestamp, attempt, attempts, failures, sleeps,
                   endedBy, lastOutcome, uploaded, fullUpload, lastTs, startStore>>

\* The except branch of tapd_backup.main: the archive still exists, unlink is
\* called; it returns 1, or its exception leaves main.
TapdExcept(unlink) ==
    IF unlink = "ok"
    THEN [returns |-> TRUE, code |-> 1, archive |-> "removed"]
    ELSE [returns |-> FALSE, code |-> -1, archive |-> "exists"]

\* An except branch that returns 1 and leaves the archive.
TapdMainEndNoCleanup(res, first, second) ==
    IF res # "raised" /\ first = "ok"
    THEN [returns |-> TRUE, code |-> IF res = "ok" THEN 0 ELSE 1,
          archive |-> "removed"]
    ELSE [returns |-> TRUE, code |-> 1, archive |-> "exists"]

\* tapd_backup.main from the end of upload_to_dropbox (res: "ok", "fail" or
\* "raised"): the unlink of the try body (first), then `return 0` or
\* `return 1`; an exception of the call or of that unlink enters the except
\* branch with its own unlink (second).
TapdMainEnd(res, first, second) ==
    IF res # "raised" /\ first = "ok"
    THEN [returns |-> TRUE, code |-> IF res = "ok" THEN 0 ELSE 1,
          archive |-> "removed"]
    ELSE TapdExcept(second)

\* `return 0` if success, else `return 1`; in tapd_backup.main the removal of
\* the temporary archive comes first, and an exception that leaves main ends
\* the process without a return value
MainReturn ==
    /\ pc = "done"
    /\ entry # "none"
    /\ IF entry = "tapd"
       THEN \E first, second \in {"ok", "raises"} :
              LET end == TapdMainEnd(result, first, second)
              IN /\ archive' = end.archive
                 /\ IF end.returns
                    THEN Exit(end.code)
                    ELSE pc' = "crashed" /\ UNCHANGED exit_code
       ELSE Exit(IF result = "ok" THEN 0 ELSE 1) /\ UNCHANGED archive
    /\ UNCHANGED <<orch, system_id, keep_last_n, inv, facVars, lastOp, entry, env,
                   provider_name, store, now, retVars, lastDel, invVars, localVars>>

Init ==
    /\ InitConfig
    /\ system_id = SysN
    /\ \E P \in 0..MaxOwn,
          other \in SUBSET (IF orch = "azure"
                            THEN {Blob(get_system_backup_dir(OtherSystem(system_id)),
                                       TsName(1), 1, "x")}
                            ELSE {}) :
         /\ store = {Blob(OwnDir, TsName(t), t, "x") : t \in 1..P} \cup other
                       \cup (IF P = 0 THEN {} ELSE SideRecords(OwnDir))
         /\ localFiles = IF orch = "dropbox" THEN {} ELSE 1..P
    /\ localLatest = IF localFiles = {} THEN NoData ELSE "x"
    /\ now = MaxOwn
    /\ pc = "idle"
    /\ NoPass
    /\ NoInvocation

Next ==
    \/ Start
    \/ SetupClient
    \/ LocalBackup
    \/ BeginAttempt
    \/ LoopExhausted
    \/ EnsureFolders
    \/ UploadTimestamped
    \/ UploadChecksums
    \/ UploadLatest
    \/ Sleep
    \/ CleanupList
    \/ CleanupDelete
    \/ CleanupReturn
    \/ ReportSuccess

Spec == Init /\ [][Next]_vars

\* One invocation over a store of at most two timestamped records with
\* keep_last_n = 1. The invocation is one sequential run: every call it makes
\* returns or raises, and every sleep ends, so a step that can be taken is
\* taken.
InitLive ==
    /\ Init
    /\ keep_last_n = 1
    /\ Cardinality(Matching(store)) <= 2

SpecLive == InitLive /\ [][Next]_vars /\ WF_vars(Next)

\* The descriptors an entry point may find configured.
MainDescriptors ==
    {Missing,
     <<"azure", SchemeSep, "acct", AzureSuffix, "/", "c">> \o Query,
     <<"s3", SchemeSep, "acct", AzureSuffix, "/", "c">> \o Query,
     <<"other", SchemeSep, "acct", ".example.com", "/", "c">> \o Query}

MainEnvs(e) ==
    IF e = "backup"
    THEN [connection_string : MainDescriptors, storage_provider : {""} \cup ProviderNames,
          source : {"present", "absent"}, client : ClientOutcomes]
    ELSE [connection_string : {Missing}, storage_provider : {""},
          source : IF e = "tapd" THEN {"present", "absent", "no_files"}
                   ELSE {"present", "absent"},
          client : {"built"}]

InitMain ==
    /\ entry \in {"backup", "dropbox", "tapd"}
    /\ env \in MainEnvs(entry)
    /\ provider_name = ""
    /\ exit_code = -1
    /\ archive = "none"
    /\ orch = IF entry = "backup" THEN "none" ELSE entry
    /\ system_id = SysN
    /\ keep_last_n \in 0..1
    /\ providers \in {ImportedProviders,
                      register_provider(ImportedProviders, "other", OtherClass)}
    /\ made = NoCall
    /\ config = BaseConfig
    /\ handed = NotHanded
    /\ lastOp = NoOp
    /\ \E P \in 0..1 :
         /\ store = {Blob(IF entry = "dropbox" THEN BackupRoot
                           ELSE get_system_backup_dir(system_id),
                           TsName(t), t, "x") : t \in 1..P}
         /\ localFiles = 1..P
    /\ localLatest = IF localFiles = {} THEN NoData ELSE "x"
    /\ now = MaxOwn
    /\ pc = "main"
    /\ NoPass
    /\ NoInvocation

NextMain ==
    \/ MainBackup
    \/ PerformBackup
    \/ MainDropbox
    \/ MainTapd
    \/ Start
    \/ SetupClient
    \/ ReadArchiveRaises
    \/ LocalBackup
    \/ BeginAttempt
    \/ EnsureFolders
    \/ UploadTimestamped
    \/ UploadChecksums
    \/ UploadLatest
    \/ Sleep
    \/ FallbackCreateDirectory
    \/ FallbackTimestamped
    \/ FallbackLatest
    \/ CleanupList
    \/ CleanupDelete
    \/ CleanupReturn
    \/ ReportSuccess
    \/ MainReturn

SpecMain == InitMain /\ [][NextMain]_vars

----------------------------------------------------------------------------
\* Two invocations of AzureStorageProvider.upload_backup_with_retry for one
\* system at once, their remote calls interleaved in every way. Each call is
\* one step; the service stamps every upload of a timestamped record with a
\* later modification time than the one before, and answers every delete.
\* Uploads and listings may fail. The local mirror is left out here:
\* local_backup touches no remote record and its value is not read.

\* The timestamps the two invocations may take: the second one starts within
\* the same second as the first or in a later one.
NewStamps(i) == IF i = 1 THEN {MaxOwn + 1} ELSE {MaxOwn + 1, MaxOwn + 2}

OvPaths(i) == generate_backup_paths(OwnDir, inv[i].timestamp)
OvData(i) == IF i = 1 THEN "x" ELSE "y"

\* What an overlapped step leaves alone.
OvFrame ==
    UNCHANGED <<orch, system_id, keep_last_n, facVars, lastOp, mainVars, pc,
                retVars, lastDel, invVars, localVars>>

\* upload_backup_with_retry(file_contents, 1): timestamp = now();
\* local_backup; for attempt in range(max_retries)
OvStart(i) ==
    /\ pc = "overlap"
    /\ inv[i].pc = "idle"
    /\ \E t \in NewStamps(i) :
         inv' = [inv EXCEPT ![i].timestamp = t,
                            ![i].max_retries = 1,
                            ![i].pc = "up_ts"]
    /\ UNCHANGED <<store, now>>
    /\ OvFrame

\* The except branch of the helper: the next attempt (after the sleep), or
\* `return False` when this was the last one.
OvFailed(i) ==
    IF inv[i].attempt < inv[i].max_retries - 1
    THEN [inv EXCEPT ![i].faulted = TRUE, ![i].attempt = @ + 1, ![i].pc = "up_ts"]
    ELSE [inv EXCEPT ![i].faulted = TRUE, ![i].result = "fail", ![i].pc = "done"]

\* upload_file(file_contents, timestamped_path)
OvUploadTimestamped(i) ==
    /\ pc = "overlap"
    /\ inv[i].pc = "up_ts"
    /\ \E outcome \in {"ok", "transient"} :
         IF outcome = "ok"
         THEN /\ now' = now + 1
              /\ store' = upload_file(store, OvPaths(i).timestamped, OvData(i),
                                      now', outcome)
              /\ inv' = [inv EXCEPT
                           ![i].put = @ \cup {[path |-> OvPaths(i).timestamped,
                                              mtime |-> now', data |-> OvData(i)]},
                           ![i].pc = "up_latest"]
         ELSE /\ inv' = OvFailed(i)
              /\ UNCHANGED <<store, now>>
    /\ OvFrame

\* upload_file(file_contents, latest_path)
OvUploadLatest(i) ==
    /\ pc = "overlap"
    /\ inv[i].pc = "up_latest"
    /\ \E outcome \in {"ok", "transient"} :
         IF outcome = "ok"
         THEN /\ store' = upload_file(store, OvPaths(i).latest, OvData(i), now,
                                      outcome)
              /\ inv' = [inv EXCEPT ![i].pc = "cl_list"]
         ELSE /\ inv' = OvFailed(i)
              /\ store' = store
    /\ now' = now
    /\ OvFrame

\* cleanup_old_backups: list_backups(), filter, sort
OvList(i) ==
    /\ pc = "overlap"
    /\ inv[i].pc = "cl_list"
    /\ \E outcome \in Outcomes :
         IF outcome = "served"
         THEN \E s \in SortedNewestFirst(Matching(store)) :
                inv' = [inv EXCEPT ![i].backup_files = s, ![i].listOk = TRUE,
                                   ![i].idx = FirstOld, ![i].pc = "cl_delete"]
         ELSE inv' = [inv EXCEPT ![i].backup_files = <<>>, ![i].listOk = FALSE,
                                 ![i].faulted = TRUE,
                                 ![i].idx = FirstOld, ![i].pc = "cl_delete"]
    /\ UNCHANGED <<store, now>>
    /\ OvFrame

\* cleanup_old_backups: delete_file(backup_path) of the next old record
OvDelete(i) ==
    /\ pc = "overlap"
    /\ inv[i].pc = "cl_delete"
    /\ Len(inv[i].backup_files) > keep_last_n
    /\ inv[i].idx <= Len(inv[i].backup_files)
    /\ LET p == inv[i].backup_files[inv[i].idx].path
           d == delete_file(store, p, "served")
       IN /\ store' = d.store
          /\ inv' = [inv EXCEPT
                       ![i].del = [existed |-> Exists(store, p),
                                   outcome |-> "served", ret |-> d.ret],
                       ![i].idx = NextIndex(@, d.ret)]
    /\ now' = now
    /\ OvFrame

\* return len(backup_files), then `return True` of the helper
OvReturn(i) ==
    /\ pc = "overlap"
    /\ inv[i].pc = "cl_delete"
    /\ \/ Len(inv[i].backup_files) <= keep_last_n
       \/ inv[i].idx > Len(inv[i].backup_files)
    /\ inv' = [inv EXCEPT ![i].result = "ok", ![i].pc = "done"]
    /\ UNCHANGED <<store, now>>
    /\ OvFrame

NextOverlap ==
    \/ \E i \in Procs : OvStart(i)
    \/ \E i \in Procs : OvUploadTimestamped(i)
    \/ \E i \in Procs : OvUploadLatest(i)
    \/ \E i \in Procs : OvList(i)
    \/ \E i \in Procs : OvDelete(i)
    \/ \E i \in Procs : OvReturn(i)

\* The store before the two invocations: P records uploaded one after the
\* other, and a checksum side-file.
InitOverlap ==
    /\ InitConfig
    /\ orch = "azure"
    /\ system_id = SysN
    /\ \E P \in 0..MaxOwn :
         store = {Blob(OwnDir, TsName(t), t, "x") : t \in 1..P}
                    \cup {Blob(OwnDir, ChecksumName(1), 1, "x")}
    /\ now = MaxOwn
    /\ pc = "overlap"
    /\ NoPass
    /\ NoInvocation
    /\ localFiles = {}
    /\ localLatest = NoData

SpecOverlap == InitOverlap /\ [][NextOverlap]_vars

----------------------------------------------------------------------------
\* Claims about the retention pass (checked under SpecRetention).

LatestRecords(st) == {r \in st : r.path = Path(OwnDir, LatestName)}
PassDone == pc = "cl_done"

Kept == {r \in Matching(store0) : r.path \notin attempted}
Tried == {r \in Matching(store0) : r.path \in attempted}

PrunedOldest ==
    LET M == Cardinality(Matching(store0))
    IN IF M > keep_last_n
       THEN /\ idx - FirstOld = M - keep_last_n
            /\ Cardinality(attempted) = M - keep_last_n
            /\ attempted \subseteq Paths(Matching(store0))
            /\ Cardinality(Kept) = keep_last_n
            /\ \A a \in Tried, k \in Kept : a.mtime <= k.mtime
            /\ Kept \subseteq store
       ELSE attempted = {} /\ store = store0

C8_NamespacePartition ==
    /\ \A i \in 1..Len(backup_files) : backup_files[i].path.dir = OwnDir
    /\ \A p \in attempted : p.dir = OwnDir
    /\ \A r \in store0 : r.path.dir # OwnDir => r \in store

----------------------------------------------------------------------------
\* Direct calls of the provider's delete_file.

DeleteTargets ==
    {Path(OwnDir, TsName(t)) : t \in OwnStamps} \cup {Path(OwnDir, LatestName)}

CallDelete ==
    /\ pc = "api"
    /\ \E p \in DeleteTargets, outcome \in Outcomes :
         LET d == delete_file(store, p, outcome)
             call == [path |-> p, existed |-> Exists(store, p), outcome |-> outcome,
                      ret |-> d.ret, before |-> store, after |-> d.store]
         IN /\ store' = d.store
            /\ lastDel' = IF lastDel = <<>> THEN <<call>> ELSE <<call, lastDel[1]>>
    /\ UNCHANGED <<cfgVars, now, pc, retVars, invVars, localVars>>

InitDelete ==
    /\ InitConfig
    /\ orch = "azure"
    /\ \E S \in SUBSET OwnStamps, side \in SUBSET SideRecords(OwnDir) :
         store = {Blob(OwnDir, TsName(t), t, "x") : t \in S} \cup side
    /\ now = MaxStamp + 1
    /\ pc = "api"
    /\ NoPass
    /\ NoInvocation
    /\ localFiles = {}
    /\ localLatest = NoData

SpecDelete == InitDelete /\ [][CallDelete]_vars

\* C9 as stated: delete_file on a path that does not exist returns success and
\* leaves the store unchanged; deleting the same path twice in a row returns
\* success both times and yields the store of deleting it once.
C9_IdempotentDeleteAlways ==
    /\ \A i \in 1..Len(lastDel) :
         ~lastDel[i].existed => lastDel[i].ret /\ lastDel[i].after = lastDel[i].before
    /\ (Len(lastDel) = 2 /\ lastDel[1].path = lastDel[2].path) =>
         /\ lastDel[1].ret /\ lastDel[2].ret
         /\ lastDel[1].after = lastDel[2].after

\* C9 amended: a call the service answers returns success on a path that does
\* not exist and leaves the store unchanged (a call that faults returns
\* failure, the store unchanged too); two answered calls in a row on one path
\* both return success and yield the store of the first.
C9_IdempotentDelete ==
    /\ \A i \in 1..Len(lastDel) :
         ~lastDel[i].existed =>
            /\ lastDel[i].after = lastDel[i].before
            /\ lastDel[i].ret = (lastDel[i].outcome = "served")
    /\ (/\ Len(lastDel) = 2 /\ lastDel[1].path = lastDel[2].path
        /\ lastDel[1].outcome = "served" /\ lastDel[2].outcome = "served") =>
         /\ lastDel[1].ret /\ lastDel[2].ret
         /\ lastDel[1].after = lastDel[2].after
         /\ ~Exists(lastDel[1].after, lastDel[1].path)

C9_Witness ==
    /\ Len(lastDel) = 2 /\ lastDel[1].path = lastDel[2].path
    /\ lastDel[2].existed /\ lastDel[2].outcome = "served"
    /\ ~lastDel[1].existed /\ lastDel[1].outcome = "served" /\ lastDel[1].ret
    /\ lastDel[1].after # {}

----------------------------------------------------------------------------
\* Claims about one invocation (checked under Spec).

Done == pc = "done"
InAttempt == pc \in {"folders", "up_ts", "up_sums", "up_latest", "backoff"}
ExpectedSleeps(k) == [i \in 1..k |-> 2 ^ (i - 1)]

\* The timestamped matching records the store held before this invocation,
\* other than the one at this invocation's own timestamped path.
Prior == {r \in Matching(startStore) : r.path # InvocationPaths.timestamped}
RemainingPrior == Prior \cap store
LatestHoldsArtifact ==
    \E r \in store : r.path = InvocationPaths.latest /\ r.data = file_contents

EndToEndCase ==
    /\ Done /\ result = "ok"
    /\ orch \in {"azure", "tapd"}
    /\ keep_last_n >= 1
    /\ Cardinality(Prior) + 1 > keep_last_n
    /\ \A r \in Prior : r.mtime < lastTs[1].mtime

EndToEndResult ==
    /\ Cardinality(Matching(store)) = keep_last_n
    /\ \E new \in Matching(store) :
         /\ new.path = InvocationPaths.timestamped
         /\ new.data = file_contents
         /\ Matching(store) \ {new} = RemainingPrior
    /\ \A k \in RemainingPrior, d \in Prior \ store : d.mtime <= k.mtime
    /\ LatestHoldsArtifact

C4_RetrySuccess ==
    /\ (Done /\ fullUpload) => result = "ok"
    /\ (Done /\ result = "ok") =>
          /\ fullUpload
          /\ attempts = failures + 1
          /\ attempts <= max_retries
          /\ sleeps = ExpectedSleeps(failures)
    /\ InAttempt => Len(sleeps) = attempts - 1
    /\ (pc = "loop" /\ attempts > 0) =>
          Len(sleeps) = attempts /\ attempt < max_retries

C4_Witness ==
    /\ Done /\ result = "ok"
    /\ failures = 3
    /\ attempts = 4
    /\ sleeps = <<1, 2, 4>>

\* Every attempt of the invocation failed, the last one with a failure the
\* orchestrator retries.
AllAttemptsFailedRetryable ==
    /\ Done
    /\ max_retries >= 1
    /\ attempts >= 1
    /\ failures = attempts
    /\ ~NonRetryable(lastOutcome)

\* C5: when every attempt fails with a retryable failure, the invocation
\* makes exactly max_retries attempts, sleeps max_retries - 1 times (never
\* after the last attempt), reports failure, and the local mirror files it
\* wrote at its start still exist.
C5_RetryExhaustion ==
    AllAttemptsFailedRetryable =>
        /\ result = "fail"
        /\ attempts = max_retries
        /\ sleeps = ExpectedSleeps(max_retries - 1)
        /\ localWrote => (timestamp \in localFiles /\ localLatest = file_contents)

C5_Witness ==
    /\ AllAttemptsFailedRetryable
    /\ max_retries = 3
    /\ localWrote
    /\ keep_last_n = 1
    /\ Cardinality(localFiles) = 1
    /\ file_contents = "y"

\* C6 as stated: in every orchestrator, a non-retryable (quota / space)
\* failure of an attempt ends the invocation with failure at once: no further
\* attempt and no backoff sleep.
C6_NonRetryableAborts ==
    lastOutcome = "quota" =>
        /\ Done
        /\ result = "fail"
        /\ Len(sleeps) = attempts - 1

\* C7 as stated: every invocation that has an artifact writes the local
\* mirror before any remote upload is attempted, and does so whether the
\* remote side succeeds, fails or cannot be reached.
C7_LocalMirrorFirst ==
    /\ uploaded => localCalled
    /\ Done => localCalled

\* C10: after an invocation that reports success the remote 'latest' record
\* holds the bytes of the invocation's artifact, which are the bytes of the
\* most recently uploaded timestamped record, whatever the retention pass
\* deleted.
C10_LatestPointer ==
    (Done /\ result = "ok") =>
        /\ LatestHoldsArtifact
        /\ lastTs # <<>>
        /\ lastTs[1].data = file_contents
        /\ lastTs[1].path = InvocationPaths.timestamped

C10_Witness ==
    /\ Done /\ result = "ok"
    /\ file_contents = "y"
    /\ \E r \in startStore : r.path = InvocationPaths.latest /\ r.data = "x"
    /\ InvocationPaths.timestamped \notin Paths(store)
    /\ failures >= 1

----------------------------------------------------------------------------
\* Claims about the factory and the constructor (checked under SpecFactory).

FactoryOps == {"create_provider", "create_provider_from_connection_string"}

\* The name the last factory call looked up in the registry.
LookedUp ==
    IF made.op = "create_provider" THEN made.name ELSE urlparse(made.cs).scheme

\* The last factory call was given a name, or a descriptor with a scheme, that
\* is not registered.
UnknownCase ==
    /\ made.op \in FactoryOps
    /\ made.op = "create_provider_from_connection_string" => made.cs # Missing
    /\ LookedUp \notin DOMAIN providers

\* C11: create_provider_from_connection_string with a descriptor whose scheme
\* is not registered, and create_provider with a name that is not registered,
\* fail with the unknown-provider error, whose message lists every registered
\* name, and construct no provider.
C11_UnknownProvider ==
    UnknownCase =>
        /\ made.raised = "unknown"
        /\ made.available = DOMAIN providers
        /\ made.instance = NoInstance

C11_Witness ==
    /\ UnknownCase
    /\ made.op = "create_provider_from_connection_string"
    /\ urlparse(made.cs).scheme = "s3"
    /\ DOMAIN providers = {"azure", "other"}
    /\ made.available = {"azure", "other"}

\* The descriptor is missing, or its scheme is not 'azure', or its host is
\* absent or lacks the domain suffix, or its path has no container segment.
Invalid(cs) ==
    \/ cs = Missing
    \/ urlparse(cs).scheme # "azure"
    \/ urlparse(cs).hostname = <<>>
    \/ ~EndsWith(urlparse(cs).hostname, AzureSuffix)
    \/ FirstSegment(urlparse(cs).path) = <<>>

\* The last call ran the blob-store provider's constructor.
AzureConstructorRan ==
    \/ made.op = "AzureStorageProvider"
    \/ /\ made.op \in FactoryOps
       /\ made.op = "create_provider_from_connection_string" => made.cs # Missing
       /\ LookedUp \in DOMAIN providers
       /\ providers[LookedUp] = AzureClass

\* C15 as stated: constructing the blob-store provider fails, yielding no
\* instance, whenever the descriptor is missing, has another scheme than
\* 'azure', has no host or a host without the domain suffix, or has no
\* container segment; it succeeds otherwise, without a remote operation.
C15_FailFastAlways ==
    AzureConstructorRan =>
        /\ Invalid(made.cs) => (made.raised # "none" /\ made.instance = NoInstance)
        /\ ~Invalid(made.cs) => (made.raised = "none" /\ made.instance = AzureClass)
        /\ store = store0

\* C15 amended: the same failures; otherwise construction succeeds exactly
\* when building the client object from the descriptor's URL does not raise,
\* and a raise there fails construction too. No remote operation either way.
C15_FailFast ==
    AzureConstructorRan =>
        /\ Invalid(made.cs) => (made.raised # "none" /\ made.instance = NoInstance)
        /\ ~Invalid(made.cs) =>
              IF made.client = "built"
              THEN made.raised = "none" /\ made.instance = AzureClass
              ELSE made.raised = "client" /\ made.instance = NoInstance
        /\ store = store0

C15_Witness ==
    /\ made.op = "AzureStorageProvider"
    /\ ~Invalid(made.cs)
    /\ made.cs[1] = "AZURE"
    /\ made.instance = AzureClass
    /\ store # {}

----------------------------------------------------------------------------
\* Claims about the Azure provider's operations (checked under SpecOps).

\* The values an operation may return.
OpReturns(op) ==
    CASE op = "upload_file" -> {"True", "False"}
      [] op = "list_backups" -> {"list", "[]"}
      [] op = "delete_file" -> {"True", "False"}
      [] op = "create_directory" -> {"True"}
      [] OTHER -> {}

\* C13: whatever the transport call does (it succeeds, reports not-found,
\* raises an API error or raises any other exception), upload_file,
\* list_backups, delete_file and create_directory return a value (True or
\* False, a list that is empty after a fault) and raise nothing to the caller.
C13_NoEscapingFaults ==
    lastOp.op # "none" =>
        /\ ~lastOp.raised
        /\ lastOp.ret \in OpReturns(lastOp.op)
        /\ (lastOp.op = "list_backups" /\ lastOp.exc # "none") => lastOp.ret = "[]"
        /\ (lastOp.op = "upload_file" /\ lastOp.exc # "none") => lastOp.ret = "False"

C13_Witness ==
    /\ lastOp.op = "upload_file"
    /\ lastOp.exc = AnyException
    /\ lastOp.ret = "False"
    /\ ~lastOp.raised
    /\ store # {}

----------------------------------------------------------------------------
\* Claims about the entry points (checked under SpecMain).

Exited == pc = "exited"

\* The source file (for tapd: the data directory, or every database file in
\* it) is absent.
NothingToBackUp == env.source \in {"absent", "no_files"}

\* The required configuration is missing: no connection descriptor.
ConfigMissing == entry = "backup" /\ env.connection_string = Missing

\* C12 as stated: every entry point returns 0 or 1; it returns 0 exactly when
\* the backup succeeded or there was nothing to back up (the source file or
\* the source files are absent), and 1 on a backup failure or on missing
\* configuration.
C12_ExitContract ==
    Exited =>
        /\ exit_code \in {0, 1}
        /\ ConfigMissing => exit_code = 1
        /\ ~ConfigMissing => (exit_code = 0 <=> (result = "ok" \/ NothingToBackUp))

\* perform_backup asked the factory for a provider.
Performed == entry = "backup" /\ made.op # "none"

\* C14 as stated: with a non-empty STORAGE_PROVIDER, perform_backup builds the
\* provider registered under that name and main reports that name, whatever
\* scheme the descriptor carries; the descriptor's scheme selects the provider
\* only when the setting is empty.
C14_OverridePrecedence ==
    /\ (/\ Performed
        /\ env.storage_provider \in DOMAIN providers
        /\ env.client = "built") =>
          /\ made.op = "create_provider"
          /\ made.instance = providers[env.storage_provider]
          /\ provider_name = env.storage_provider
    /\ (Performed /\ env.storage_provider = "") =>
          /\ made.op = "create_provider_from_connection_string"
          /\ provider_name = urlparse(env.connection_string).scheme

\* What constructing the class registered under `name` yields when the client
\* object can be built: the Azure constructor rejects a descriptor it finds
\* invalid, whichever way it was selected.
Built(name) ==
    IF providers[name] = AzureClass /\ Invalid(env.connection_string)
    THEN NoInstance
    ELSE providers[name]

\* C14 amended: with a non-empty STORAGE_PROVIDER, perform_backup asks the
\* factory for the class registered under that name, never looking at the
\* descriptor's scheme, and main reports that name; with an empty setting the
\* scheme selects the class and is the name reported. The class selected is
\* then constructed on the descriptor, and the Azure constructor fails on a
\* descriptor whose scheme is not 'azure'.
C14_Override ==
    /\ (Performed /\ env.storage_provider # "") =>
          /\ made.op = "create_provider"
          /\ made.name = env.storage_provider
          /\ provider_name = env.storage_provider
          /\ (env.storage_provider \in DOMAIN providers /\ env.client = "built") =>
                made.instance = Built(env.storage_provider)
          /\ env.storage_provider \notin DOMAIN providers => made.raised = "unknown"
    /\ (Performed /\ env.storage_provider = "") =>
          /\ made.op = "create_provider_from_connection_string"
          /\ provider_name = urlparse(env.connection_string).scheme
          /\ (provider_name \in DOMAIN providers /\ env.client = "built") =>
                made.instance = Built(provider_name)

C14_Witness ==
    /\ Performed
    /\ env.storage_provider = "other"
    /\ urlparse(env.connection_string).scheme = "azure"
    /\ made.instance = OtherClass
    /\ provider_name = "other"
    /\ exit_code = 0

\* C19 as stated: perform_backup retries a retryable upload failure of an
\* attempt before the last, whether or not the provider has its own
\* upload_backup_with_retry: an invocation that ends on a retryable upload
\* failure has made all max_retries attempts.
C19_UniformRetry ==
    (/\ entry = "backup"
     /\ pc \in {"done", "exited"}
     /\ result = "fail"
     /\ uploaded
     /\ lastOutcome = "transient") => attempts = max_retries

----------------------------------------------------------------------------
\* Claims about the attempts of one invocation.

\* The timestamped records the store holds that it did not hold when the
\* invocation started.
NewTimestamped == Paths(Matching(store)) \ Paths(startStore)

\* C16 as stated (checked under Spec): in every orchestrator, one invocation
\* adds at most one new timestamped record to the remote store, however many
\* attempts it makes.
C16_OneTimestampedRecord == Cardinality(NewTimestamped) <= 1

InPass == pc \in {"cl_list", "cl_delete", "cl_done"}

\* C17 (checked under SpecMain): an invocation runs the retention pass at most
\* once, in an attempt whose timestamped upload and 'latest' upload both
\* succeeded and after both; an invocation that reports failure has deleted
\* nothing from the remote store.
C17_PruneOnlyOnFullSuccess ==
    /\ passes <= 1
    /\ InPass => /\ fullUpload
                 /\ failures = attempts - 1
                 /\ lastTs # <<>> /\ lastTs[1].mtime = now
    /\ passes = 1 =>
          /\ fullUpload
          /\ InPass \/ result = "ok"
          /\ \E r \in store0 : r.path = lastTs[1].path /\ r.data = file_contents
          /\ \E r \in store0 : r.path = InvocationPaths.latest /\ r.data = file_contents
    /\ result = "fail" =>
          /\ passes = 0
          /\ attempted = {}
          /\ \A r \in startStore : Exists(store, r.path)

C17_Witness ==
    /\ pc = "exited" /\ exit_code = 0
    /\ orch = "azure"
    /\ passes = 1
    /\ failures = 2
    /\ attempted # {}
    /\ \E r \in startStore : ~Exists(store, r.path)

UploadsOfAttempt == {"up_ts", "up_sums", "up_latest"}

\* One step of an attempt, in the order the claim gives.
RetryUnitStep ==
    /\ (pc' = "up_latest" /\ pc # "up_latest") =>
          /\ pc \in {"up_ts", "up_sums"}
          /\ lastOutcome' = "ok"
          /\ \E r \in store' : /\ r.path = InvocationPaths.timestamped
                               /\ r.data = file_contents
                               /\ r.mtime = now
    /\ (pc = "up_ts" /\ lastOutcome' # "ok") => pc' \in {"up_ts", "backoff", "done"}
    /\ (pc = "up_latest" /\ lastOutcome' # "ok") => pc' \in {"up_latest", "backoff", "done"}
    /\ pc = "backoff" => pc' \in {"backoff", "loop"}
    /\ (pc = "loop" /\ pc' \in UploadsOfAttempt) => pc' = "up_ts"
    /\ (pc = "folders" /\ pc' \in UploadsOfAttempt) => pc' = "up_ts"

\* C18 (checked under Spec): within an attempt the timestamped upload comes
\* before the upload of 'latest'; 'latest' is not uploaded when the
\* timestamped upload of that attempt failed; and after a failed upload of
\* 'latest' the next attempt starts again with the timestamped upload.
C18_RetryAsUnit == [][RetryUnitStep]_vars

C18_Witness ==
    /\ pc = "up_ts"
    /\ orch = "azure"
    /\ attempts = 2
    /\ lastTs # <<>>
    /\ ~fullUpload /\ uploaded
    /\ \E r \in store : r.path = InvocationPaths.timestamped /\ r.mtime < now

\* C20 (checked under SpecRetention): in a pass over M > keep_last_n matching
\* records a deletion that fails does not stop the pass: a deletion is
\* attempted for every record from index keep_last_n on, and the pass returns
\* its count.
C20_BestEffortPruning ==
    (PassDone /\ listOk /\ Len(backup_files) > keep_last_n) =>
        /\ attempted = {backup_files[i].path : i \in FirstOld..Len(backup_files)}
        /\ delFailed \subseteq attempted
        /\ total = Len(backup_files)
        /\ total = Cardinality(Matching(store0))

C20_Witness ==
    /\ PassDone /\ listOk
    /\ Len(backup_files) >= keep_last_n + 3
    /\ backup_files[FirstOld].path \in delFailed
    /\ backup_files[FirstOld + 1].path \notin delFailed
    /\ backup_files[FirstOld + 2].path \in delFailed
    /\ ~Exists(store, backup_files[FirstOld + 1].path)

\* C21 (checked under SpecRetention): a retention pass attempts to delete, and
\* removes, only records whose name has the backup-name infix and the backup
\* suffix; the 'latest' record, the checksum side-files and every other
\* record whose name does not match are in the store as they were, at every
\* step of the pass, and nothing is added.
C21_PruningFrame ==
    /\ \A p \in attempted : IsBackupName(p.name)
    /\ \A i \in 1..Len(backup_files) : IsBackupName(backup_files[i].path.name)
    /\ \A r \in store0 : ~IsBackupName(r.path.name) => r \in store
    /\ store \subseteq store0

C21_Witness ==
    /\ PassDone /\ listOk
    /\ keep_last_n = 0
    /\ Cardinality(attempted) >= 2 /\ delFailed = {}
    /\ SideRecords(OwnDir) \subseteq store
    /\ \A r \in store : r.path.dir = OwnDir => ~IsBackupName(r.path.name)

\* C22 (checked under Spec): the retention pass returns the number of
\* matching records it listed, counted before it deleted any of them, and 0
\* when the listing failed; the count the orchestrator then prints is the
\* smaller of that number and keep_last_n, so it never exceeds keep_last_n.
C22_PassResult ==
    /\ total # -1 =>
          /\ listOk => total = Cardinality(Matching(store0))
          /\ ~listOk => total = 0
    /\ shown # -1 =>
          /\ total # -1
          /\ shown = IF total < keep_last_n THEN total ELSE keep_last_n
          /\ shown <= keep_last_n
    /\ (Done /\ result = "ok") => shown # -1

C22_Witness ==
    /\ Done /\ result = "ok" /\ listOk
    /\ keep_last_n = 2
    /\ total = 4
    /\ Cardinality(Matching(store)) = 2
    /\ shown = 2

----------------------------------------------------------------------------
\* Claims about the local mirror.

LocalBackupReturned == localEnd.ret # "none"

\* The timestamped files in the mirror once local_backup has written its own.
LocalWritten == localEnd.files0 \cup {timestamp}

\* The n greatest elements of S.
GreatestN(S, n) == {t \in S : Cardinality({u \in S : u > t}) < n}

\* C23 (checked under SpecLocal): for keep_last_n = N >= 1, after a
\* local_backup in which no write and no unlink failed the mirror holds at most
\* N timestamped files, namely the N with the greatest names among those it
\* held and the one just written (the one just written among them when its
\* timestamp is the greatest); and the local 'latest' file is never removed,
\* whatever failed.
C23_LocalRetention ==
    /\ (LocalBackupReturned /\ keep_last_n >= 1 /\ localEnd.fault = "none") =>
          /\ Cardinality(localFiles) <= keep_last_n
          /\ localFiles = GreatestN(LocalWritten, keep_last_n)
          /\ (\A u \in LocalWritten : u <= timestamp) => timestamp \in localFiles
          /\ localLatest = file_contents
    /\ (LocalBackupReturned /\ localEnd.latest0 # NoData) => localLatest # NoData

C23_Witness ==
    /\ LocalBackupReturned /\ localEnd.fault = "none"
    /\ keep_last_n = 2
    /\ Cardinality(localEnd.files0) = 3
    /\ timestamp \notin localEnd.files0
    /\ timestamp \notin localFiles
    /\ localEnd.latest0 = "x" /\ localLatest = "y"

\* The remote path went on after local_backup as it does after one that
\* succeeded: an invocation that ended made at least one attempt if it was
\* allowed any.
RemotePathRan == (LocalBackupReturned /\ Done /\ max_retries >= 1) => attempts >= 1

\* C24 as stated (checked under Spec): when the mirror write or the prune
\* fails, local_backup returns failure and raises nothing, and the
\* orchestrator still makes its upload attempts.
C24_LocalFaultsReturnFailure ==
    /\ localEnd.fault # "none" => localEnd.ret = "False"
    /\ RemotePathRan

\* C24 amended: local_backup raises nothing; it returns failure when a write
\* failed, and when the prune failed it returns failure in tapd_backup but
\* success in the provider's method, whose prune catches its own faults.
\* Either way the orchestrator still makes its upload attempts.
C24_LocalFaults ==
    /\ localEnd.fault \in {"write", "latest"} => localEnd.ret = "False"
    /\ localEnd.fault = "prune" =>
          localEnd.ret = IF orch = "tapd" THEN "False" ELSE "True"
    /\ localEnd.fault = "none" /\ LocalBackupReturned => localEnd.ret = "True"
    /\ RemotePathRan

C24_Witness ==
    /\ Done /\ result = "ok"
    /\ orch = "tapd"
    /\ localEnd.fault = "write" /\ localEnd.ret = "False"
    /\ timestamp \notin localFiles
    /\ attempts = 2

----------------------------------------------------------------------------
\* Claims about overlapping invocations (checked under SpecOverlap).

AllDone == \A i \in Procs : inv[i].pc = "done"

\* Every timestamped record the store has held: those it started with and
\* those the two invocations uploaded; of a path uploaded twice, the later one.
Versions == Matching(startStore) \cup UNION {inv[i].put : i \in Procs}
LastVersions ==
    {r \in Versions : \A q \in Versions : q.path = r.path => q.mtime <= r.mtime}

\* The keep_last_n most recently modified of them (all, when there are fewer).
NewestKept ==
    {r \in LastVersions :
        Cardinality({q \in LastVersions : q.mtime > r.mtime}) < keep_last_n}

\* A delete of a record that is already gone returns success, and an
\* invocation fails only after a fault of one of its own calls.
RaceIsHarmless ==
    \A i \in Procs :
        /\ inv[i].del.outcome = "served" => inv[i].del.ret
        /\ inv[i].result = "fail" => inv[i].faulted

----------------------------------------------------------------------------
\* Termination of one invocation (checked under SpecLive).

\* The counts of a run stay within what max_retries allows, and a run that
\* ended has a definite result; with max_retries = 0 it ended in failure
\* without an upload.
WithinRetryBudget ==
    /\ attempts <= max_retries
    /\ Len(sleeps) <= (IF max_retries >= 1 THEN max_retries - 1 ELSE 0)
    /\ Done => result \in {"ok", "fail"}
    /\ (Done /\ max_retries = 0) => (result = "fail" /\ ~uploaded /\ attempts = 0)

\* C26: for every max_retries >= 0 and every pattern of upload, list and
\* delete outcomes the invocation ends, with success or failure, after at
\* most max_retries attempts and at most max(max_retries - 1, 0) sleeps; with
\* max_retries = 0 it makes no upload attempt and reports failure.
C26_Termination == <>Done /\ []WithinRetryBudget

C26_Witness ==
    /\ Done /\ result = "fail"
    /\ max_retries = MaxRetries
    /\ attempts = max_retries
    /\ Len(sleeps) = max_retries - 1
    /\ orch = "azure"

----------------------------------------------------------------------------
\* Claims about the temporary archive of tapd_backup.main (checked under
\* SpecMain).

\* tapd_backup.main made its temporary archive and has returned.
TapdReturned == Exited /\ entry = "tapd" /\ archive # "none"

\* C27 (checked under SpecMain): once tapd_backup.main has created the
\* temporary archive, the archive no longer exists when main returns, whether
\* upload_to_dropbox returned True, returned False or raised; and main
\* returns 1 when it returned False or raised.
C27_ArchiveCleanup ==
    TapdReturned =>
        /\ archive = "removed"
        /\ result \in {"ok", "fail", "raised"}
        /\ result \in {"fail", "raised"} => exit_code = 1

\* upload_to_dropbox raised on reading the archive; main removed the archive
\* in its except branch and returned 1.
C27_Witness ==
    /\ TapdReturned
    /\ result = "raised"
    /\ archive = "removed"
    /\ exit_code = 1

----------------------------------------------------------------------------
\* Claims about the config the factory hands on (checked under SpecFactory).

\* The step is a call of create_provider_from_connection_string.
FromConnectionStringCall ==
    /\ pc = "factory"
    /\ made'.op = "create_provider_from_connection_string"

\* C28 (checked under SpecFactory): a call of
\* create_provider_from_connection_string leaves the caller's config and the
\* provider registry as they were, whether it returns a provider or raises;
\* when it reaches the constructor, the dict it hands over is a copy of the
\* caller's config whose 'connection_string' entry is the descriptor of the
\* call and whose other entries are the caller's.
C28_FactoryFrame ==
    [][FromConnectionStringCall =>
         /\ config' = config
         /\ providers' = providers
         /\ handed'.object \in {"none", "copy"}
         /\ (made'.instance # NoInstance => handed'.object = "copy")
         /\ handed'.object = "copy" =>
              /\ DOMAIN handed'.content = DOMAIN config \cup {"connection_string"}
              /\ handed'.content["connection_string"] = made'.cs
              /\ \A k \in DOMAIN config \ {"connection_string"} :
                    handed'.content[k] = config[k]]_vars

\* A call whose descriptor differs from the one in the caller's config built
\* an Azure provider from the descriptor of the call; the caller's config
\* still holds its own descriptor.
C28_Witness ==
    /\ made.op = "create_provider_from_connection_string"
    /\ made.instance = AzureClass
    /\ handed.object = "copy"
    /\ handed.content["connection_string"] = made.cs
    /\ "connection_string" \in DOMAIN config
    /\ config["connection_string"] # made.cs
    /\ config["connection_string"] # Missing

====
